---- MODULE Spec2Model ----
(***************************************************************************)
(* Ticket printer (qr_scan.py): the input-dispatch loop of main(), in      *)
(* keyboard test mode and in GPIO mode, with the helpers it calls          *)
(* (scan_qr_code, overlay_qr_on_template, send_to_printer, delete_file,    *)
(* log_event).  The camera, the image library, the print command and the   *)
(* file system are the environment: each call's outcome is drawn from the  *)
(* outcomes the library can produce.                                       *)
(***************************************************************************)
EXTENDS Integers, Sequences, FiniteSets, TLC

-----------------------------------------------------------------------------
(* Bounds of the model *)

\* print attempts (events 5/6 with a sector selected) in one run
MaxPrints == 1
\* frames the camera delivers to one scan
MaxFrames == 2
\* frames one scan_qr_code call reads when it is followed frame by frame
MaxScanFrames == 3
\* lines of the log file the tally reads
MaxLines == 3
\* buttons held down at the same time
MaxHeld == 1

-----------------------------------------------------------------------------
(* Configuration (qr_scan.py, section KONFIGURATION) *)

TEMPLATE_DIR == "templates"
OUTPUT_DIR == "output"
TEMPLATE_Y_OFFSET == 20

\* Python's None, as a value of its own
NoneVal == "<None>"
\* selected_template = None
NoSelection == <<>>
\* filename = None
NoFile == <<>>

\* platform.system() of the hosts the program may run on; "Darwin" takes the
\* branch of "Linux" and is left out of the hosts explored
Systems == {"Linux", "Windows", "FreeBSD"}

\* os.path.join(TEMPLATE_DIR, name)
TemplatePath(name) == <<TEMPLATE_DIR, name>>

templates ==
  [k \in 1..4 |->
     CASE k = 1 -> <<"Waldseite", TemplatePath("ws_eintrittskarte_gladbach_waldseite.png")>>
       [] k = 2 -> <<"Gegengerade", TemplatePath("ws_eintrittskarte_gladbach_gegengerade.png")>>
       [] k = 3 -> <<"Wuhleseite", TemplatePath("ws_eintrittskarte_gladbach_wuhleseite.png")>>
       [] k = 4 -> <<"Haupttribuene", TemplatePath("ws_eintrittskarte_gladbach_haupttribuene.png")>>]

-----------------------------------------------------------------------------
(* Python values *)

\* truth value of a str-or-None (if qr_text:)
TruthyText(s) == s # NoneVal /\ s # ""

\* a variant of TruthyRet: only an explicit False counts as failure
TruthyRetUnlessFalse(r) == r # "False"

\* truth value of what send_to_printer returns (True, False or None)
TruthyRet(r) == r = "True"

\* f"{b}" of a bool
BoolStr(b) == IF b THEN "True" ELSE "False"

\* int(key) for key in "1".."6"
KeyNum(key) ==
  CASE key = "1" -> 1 [] key = "2" -> 2 [] key = "3" -> 3
    [] key = "4" -> 4 [] key = "5" -> 5 [] key = "6" -> 6

\* timestamp(): the clock at second resolution
timestamp(t) == t

\* os.path.join(OUTPUT_DIR, f"ticket_{timestamp()}.png")
TicketFile(t) == <<OUTPUT_DIR, "ticket_", timestamp(t), ".png">>

-----------------------------------------------------------------------------
(* The trace of one handled event: the calls it made, in order *)

Op(name, file, args) == [op |-> name, file |-> file, args |-> args]

\* a variant of log_event: only the error branch logs
log_event_ErrorsOnly(level, message) ==
  IF level = "error" THEN <<Op("log", NoFile, <<"ERROR">> \o message)>> ELSE <<>>

\* log_event(level, message): the call, as it appears in the trace
log_event(level, message) ==
  <<Op("log", NoFile, <<IF level = "error" THEN "ERROR" ELSE "INFO">> \o message)>>

\* init_logger's format "%(asctime)s [%(levelname)s] %(message)s"
LogLine(t, o) == [time |-> t, level |-> o.args[1], text |-> Tail(o.args)]

RECURSIVE LogLines(_, _)
LogLines(t, ops) ==
  IF ops = <<>> THEN <<>>
  ELSE (IF Head(ops).op = "log" THEN <<LogLine(t, Head(ops))>> ELSE <<>>)
       \o LogLines(t, Tail(ops))

-----------------------------------------------------------------------------
(* scan_qr_code: the camera is the environment *)

\* one pass of the capture loop: cap.read()'s ret, the codes decode() finds in
\* the frame, and the key cv2.waitKey returns ("q" cancels)
Frames ==
  { [ret |-> FALSE, codes |-> <<>>, key |-> ""],
    [ret |-> TRUE, codes |-> <<>>, key |-> ""],
    [ret |-> TRUE, codes |-> <<>>, key |-> "q"],
    [ret |-> TRUE, codes |-> <<"QR-A">>, key |-> ""],
    [ret |-> TRUE, codes |-> <<"QR-B", "QR-A">>, key |-> "q"] }

\* a frame that leaves the loop running: read, nothing decoded, no cancel
Blank == [ret |-> TRUE, codes |-> <<>>, key |-> ""]

\* the frames one scan reads: blank frames, then any frame (the loop reads no
\* frame after the one that ends it)
FrameSeqs ==
  { [i \in 1..n |-> IF i < n THEN Blank ELSE f] :
      n \in 1..MaxFrames, f \in Frames }

\* cv2.VideoCapture(0): whether it opened, and the frames it goes on to deliver
Cameras ==
  { [opened |-> FALSE, frames |-> <<>>] }
    \cup { [opened |-> TRUE, frames |-> fs] : fs \in FrameSeqs }

\* a frame on which the capture loop goes round again
KeepsScanning(f) == f.ret /\ f.codes = <<>> /\ f.key # "q"

\* a variant of ScanLoop: the cancel branch returns without cap.release(), and
\* the last code of a frame is returned instead of the first
ScanLoopLeaky(frames) ==
  LET E == {i \in DOMAIN frames : ~KeepsScanning(frames[i])} IN
  IF E = {}
  THEN [returned |-> FALSE, ret |-> NoneVal, released |-> FALSE]
  ELSE LET f == frames[CHOOSE i \in E : \A j \in E : i <= j] IN
       IF ~f.ret
       THEN [returned |-> TRUE, ret |-> NoneVal, released |-> TRUE]
       ELSE IF f.codes # <<>>
       THEN [returned |-> TRUE, ret |-> f.codes[Len(f.codes)], released |-> TRUE]
       ELSE [returned |-> TRUE, ret |-> NoneVal, released |-> FALSE]

\* a variant of ScanLoop: the loop gives up after two frames without a code
ScanLoopGivesUp(frames) ==
  LET E == {i \in DOMAIN frames : ~KeepsScanning(frames[i])}
      first == IF E = {} THEN 0 ELSE CHOOSE i \in E : \A j \in E : i <= j
  IN  IF first = 0 /\ Len(frames) < 2
      THEN [returned |-> FALSE, ret |-> NoneVal, released |-> FALSE]
      ELSE IF first = 0 \/ first > 2
      THEN [returned |-> TRUE, ret |-> NoneVal, released |-> TRUE]
      ELSE LET f == frames[first] IN
           [returned |-> TRUE,
            ret |-> IF f.ret /\ f.codes # <<>> THEN Head(f.codes) ELSE NoneVal,
            released |-> TRUE]

\* the while True loop; returned = FALSE while the loop is still capturing
RECURSIVE ScanLoop(_)
ScanLoop(frames) ==
  IF frames = <<>>
  THEN [returned |-> FALSE, ret |-> NoneVal, released |-> FALSE]
  ELSE LET f == Head(frames) IN
       IF ~f.ret
       THEN [returned |-> TRUE, ret |-> NoneVal, released |-> TRUE]
       ELSE IF f.codes # <<>>
       THEN [returned |-> TRUE, ret |-> Head(f.codes), released |-> TRUE]
       ELSE IF f.key = "q"
       THEN [returned |-> TRUE, ret |-> NoneVal, released |-> TRUE]
       ELSE ScanLoop(Tail(frames))

scan_qr_code(cam) ==
  IF ~cam.opened
  THEN [returned |-> TRUE, ret |-> NoneVal, released |-> FALSE,
        ops |-> log_event("error", <<"Kamera konnte nicht geoeffnet werden.">>)]
  ELSE LET r == ScanLoop(cam.frames) IN
       [returned |-> r.returned, ret |-> r.ret, released |-> r.released,
        ops |-> <<>>]

-----------------------------------------------------------------------------
(* overlay_qr_on_template: the image library and the disk are the environment *)

\* "ok": the template loads and the image is saved; "raise": Image.open,
\* qrcode.make or img.save raises
ComposeOutcomes == {"ok", "raise"}

\* the code pasted on the ticket, NoneVal when none is
overlay_qr_on_template(template_path, qr_text, out_path, y_offset, io) ==
  [raised |-> io = "raise",
   template |-> template_path,
   shift |-> y_offset,
   qr |-> IF TruthyText(qr_text) THEN qr_text ELSE NoneVal,
   path |-> out_path]

-----------------------------------------------------------------------------
(* send_to_printer: the print command is the environment *)

\* "ok": lp exits 0 / os.startfile returns; "nonzero": lp exits non-zero
\* (CalledProcessError); "raise": the call itself raises (lp not installed,
\* os.startfile fails)
PrintOutcomes == {"ok", "nonzero", "raise"}

\* outcomes the platform's mechanism has: os.startfile has no exit status
\* and a platform that is neither has no mechanism at all
PrintOutcomesOf(system) ==
  IF system \in {"Linux", "Darwin"} THEN PrintOutcomes
  ELSE IF system = "Windows" THEN {"ok", "raise"}
  ELSE {"n/a"}

\* returns "True", "False" or "None" (Python falls off the end of the function)
send_to_printer(filepath, system, outcome) ==
  IF system \in {"Linux", "Darwin"}
  THEN IF outcome = "ok"
       THEN [ret |-> "True", called |-> TRUE, ops |-> <<>>]
       ELSE [ret |-> "False", called |-> TRUE,
             ops |-> log_event("error", <<"Druckfehler: ", "<exception>">>)]
  ELSE IF system = "Windows"
  THEN IF outcome = "ok"
       THEN [ret |-> "True", called |-> TRUE, ops |-> <<>>]
       ELSE [ret |-> "False", called |-> TRUE,
             ops |-> log_event("error", <<"Druckfehler (Windows): ", "<exception>">>)]
  ELSE [ret |-> "None", called |-> FALSE, ops |-> <<>>]

-----------------------------------------------------------------------------
(* delete_file: the file system is the environment *)

\* "ok": os.remove removes the file; "raise": os.remove raises
DeleteOutcomes == {"ok", "raise"}

\* a variant of delete_file: the existence test is inverted
delete_file_Inverted(filepath, fs, outcome) ==
  IF filepath # NoFile /\ filepath \notin fs
  THEN [files |-> fs,
        ops |-> <<Op("delete", filepath, <<"failed">>)>>
                \o log_event("error", <<"Fehler beim Loeschen: ", "<exception>">>)]
  ELSE [files |-> fs, ops |-> <<Op("delete", filepath, <<"absent">>)>>]

delete_file(filepath, fs, outcome) ==
  IF filepath # NoFile /\ filepath \in fs
  THEN IF outcome = "ok"
       THEN [files |-> fs \ {filepath},
             ops |-> <<Op("delete", filepath, <<"removed">>)>>]
       ELSE [files |-> fs,
             ops |-> <<Op("delete", filepath, <<"failed">>)>>
                     \o log_event("error", <<"Fehler beim Loeschen: ", "<exception>">>)]
  ELSE [files |-> fs, ops |-> <<Op("delete", filepath, <<"absent">>)>>]

-----------------------------------------------------------------------------
(* main: the print branch of the dispatch loop (console lines 239-257, GPIO  *)
(* lines 269-293: the same statements)                                       *)

\* what the environment does during one print action
PrintEnvs(system, num) ==
  [cam : IF num = 6 THEN Cameras ELSE {[opened |-> FALSE, frames |-> <<>>]},
   compose : ComposeOutcomes,
   print : PrintOutcomesOf(system), del : DeleteOutcomes]

\* selected_template is set (if not selected_template / and selected_template)
Selected(sel) == sel # NoSelection

\* a variant of Select: a selection, once made, is kept
SelectOnce(sel, num) == IF sel = NoSelection THEN templates[num] ELSE sel

\* selected_template = templates[num]
Select(sel, num) == templates[num]

\* a variant of PrintTicket: the ticket file is removed as soon as it has been
\* composed, before it is handed to the print submitter
PrintTicketDeleteFirst(sel, num, env, t, fs, system) ==
  LET qr_mode == (num = 6)
      scan == scan_qr_code(env.cam)
      scanOps == IF qr_mode
                 THEN <<Op("scan", NoFile, <<scan.ret>>)>> \o scan.ops
                 ELSE <<>>
      filename == TicketFile(t)
      img == overlay_qr_on_template(sel[2], IF qr_mode THEN scan.ret ELSE "",
                                    filename, TEMPLATE_Y_OFFSET, env.compose)
      composeOps == <<Op("compose", filename,
                         <<img.template[1], img.template[2], img.qr, env.compose>>)>>
      del == delete_file(filename, fs \cup {filename}, env.del)
      sent == send_to_printer(filename, system, env.print)
      printOps == <<Op("print", filename, <<env.print, sent.ret>>)>> \o sent.ops
      message == <<"Sektor=", sel[1], " | QR=", BoolStr(qr_mode)>>
  IN  IF qr_mode /\ ~scan.returned
      THEN [returned |-> FALSE, raised |-> FALSE, ops |-> <<>>, files |-> fs]
      ELSE IF img.raised
      THEN [returned |-> TRUE, raised |-> TRUE,
            ops |-> scanOps \o composeOps, files |-> fs]
      ELSE [returned |-> TRUE, raised |-> FALSE,
            ops |-> scanOps \o composeOps \o del.ops \o printOps
                    \o log_event(IF TruthyRet(sent.ret) THEN "info" ELSE "error",
                                 <<IF TruthyRet(sent.ret) THEN "Ticket gedruckt: "
                                   ELSE "Druckfehler: ">> \o message),
            files |-> del.files]

\* returned = FALSE: the scan is still blocking; raised = TRUE: an exception
\* left the branch (overlay_qr_on_template is not guarded by a try)
PrintTicket(sel, num, env, t, fs, system) ==
  LET sector_name == sel[1]
      template_path == sel[2]
      qr_mode == (num = 6)
      scan == scan_qr_code(env.cam)
      qr_text == IF qr_mode THEN scan.ret ELSE ""
      scanOps == IF qr_mode
                 THEN <<Op("scan", NoFile, <<scan.ret>>)>> \o scan.ops
                 ELSE <<>>
      filename == TicketFile(t)
      img == overlay_qr_on_template(template_path, qr_text, filename,
                                    TEMPLATE_Y_OFFSET, env.compose)
      composeOps == <<Op("compose", filename,
                         <<img.template[1], img.template[2], img.qr, env.compose>>)>>
      fs1 == fs \cup {filename}
      sent == send_to_printer(filename, system, env.print)
      printOps == <<Op("print", filename, <<env.print, sent.ret>>)>> \o sent.ops
      message == <<"Sektor=", sector_name, " | QR=", BoolStr(qr_mode)>>
      del == delete_file(filename, fs1, env.del)
  IN  IF qr_mode /\ ~scan.returned
      THEN [returned |-> FALSE, raised |-> FALSE, ops |-> <<>>, files |-> fs]
      ELSE IF img.raised
      THEN [returned |-> TRUE, raised |-> TRUE,
            ops |-> scanOps \o composeOps, files |-> fs]
      ELSE IF TruthyRet(sent.ret)
      THEN [returned |-> TRUE, raised |-> FALSE,
            ops |-> scanOps \o composeOps \o printOps
                    \o log_event("info", <<"Ticket gedruckt: ">> \o message)
                    \o del.ops,
            files |-> del.files]
      ELSE [returned |-> TRUE, raised |-> FALSE,
            ops |-> scanOps \o composeOps \o printOps
                    \o log_event("error", <<"Druckfehler: ">> \o message),
            files |-> fs1]

-----------------------------------------------------------------------------
(* State *)

VARIABLES
  TEST_MODE,          \* TRUE: keyboard test mode, FALSE: GPIO mode
  system,             \* platform.system() of the host
  pc,                 \* "loop", "quit", "interrupted" or "crashed"
  selected_template,  \* NoSelection or a (sector name, template path) pair
  log,                \* logs/statistics.log, a sequence of lines
  files,              \* the files present in the output directory
  now,                \* the wall clock, in seconds
  gpio,               \* "unused", "setup" or "cleaned"
  nprints,            \* print attempts so far
  lastSelect,         \* the number of the select event handled last, 0 if none
  last,               \* the event handled last
  ops,                \* the calls the last event made, in order
  stdout,             \* what the last event printed
  nsubmits,           \* print attempts that reached send_to_printer
  camera,             \* scan_qr_code under way: the camera and the frames read
  pins,               \* the buttons held down (their pins read LOW)
  waitPin,            \* the button whose release the GPIO loop waits for, or 0
  handled,            \* the held buttons whose press has been handled
  repeated,           \* a press has been handled a second time
  statsLines,         \* stats.py: the lines of the log file it reads
  statsOut            \* stats.py: what it has printed

vars == <<TEST_MODE, system, pc, selected_template, log, files, now, gpio,
          nprints, lastSelect, last, ops, stdout, nsubmits, camera, pins,
          waitPin, handled, repeated, statsLines, statsOut>>

\* what belongs to one scan_qr_code call, to the pins, and to stats.py
scanVars == <<camera>>
pinVars == <<pins, waitPin, handled, repeated>>
statsVars == <<statsLines, statsOut>>

\* no scan under way
IdleCamera == [state |-> "idle", frames |-> <<>>]

\* stats.py has not run
NoStats == [ran |-> FALSE, sectors |-> <<>>, total |-> 0]

\* an event as handled: its kind and number, and what it found on arrival
\* (the selection, the clock, whether a select event had come before)
Event(kind, num, sel, t, seen) ==
  [kind |-> kind, num |-> num, sel |-> sel, time |-> t, fresh |-> seen = 0]

\* a variant of InitialTemplate: the first sector is selected from the start
InitialTemplateFirstSector == templates[1]

\* selected_template = None, before the loop
InitialTemplate == NoSelection

Init ==
  /\ TEST_MODE \in BOOLEAN
  /\ system \in Systems
  /\ pc = "loop"
  /\ selected_template = InitialTemplate
  /\ log = <<>>
  /\ files = {}
  /\ now = 0
  /\ gpio = IF TEST_MODE THEN "unused" ELSE "setup"
  /\ nprints = 0
  /\ lastSelect = 0
  /\ last = Event("start", 0, NoSelection, 0, 0)
  /\ ops = <<>>
  /\ stdout = <<>>
  /\ nsubmits = 0
  /\ camera = IdleCamera
  /\ pins = {}
  /\ waitPin = 0
  /\ handled = {}
  /\ repeated = FALSE
  /\ statsLines = <<>>
  /\ statsOut = NoStats

\* a variant of Cleanup: the pins are never released
CleanupNever(g, test) == g

\* finally: GPIO.cleanup() in GPIO mode
Cleanup(g, test) == IF test THEN g ELSE "cleaned"

\* a select event: nothing but the selection changes
DoSelect(num) ==
  /\ selected_template' = Select(selected_template, num)
  /\ lastSelect' = num
  /\ last' = Event("select", num, selected_template, now, lastSelect)
  /\ ops' = <<>>
  /\ stdout' = <<"Template ausgewaehlt: ", Select(selected_template, num)[1]>>
  /\ UNCHANGED <<TEST_MODE, system, pc, log, files, now, gpio, nprints,
                 nsubmits>>

\* a print event with a sector selected: everything but the selection
PrintEffects(num, env) ==
  LET r == PrintTicket(selected_template, num, env, now, files, system) IN
  /\ nprints < MaxPrints
  /\ r.returned
  /\ nprints' = nprints + 1
  /\ nsubmits' = nsubmits + Len(SelectSeq(r.ops, LAMBDA o : o.op = "print"))
  /\ ops' = r.ops
  /\ log' = log \o LogLines(now, r.ops)
  /\ files' = r.files
  /\ pc' = IF r.raised THEN "crashed" ELSE pc
  /\ gpio' = IF r.raised THEN Cleanup(gpio, TEST_MODE) ELSE gpio
  /\ last' = Event("print", num, selected_template, now, lastSelect)
  /\ stdout' = <<>>
  /\ UNCHANGED <<TEST_MODE, system, now, lastSelect>>

\* a variant of DoPrint: the print consumes the selection
DoPrintConsuming(num, env) ==
  /\ PrintEffects(num, env)
  /\ selected_template' = NoSelection

\* a print event with a sector selected
DoPrint(num, env) ==
  /\ PrintEffects(num, env)
  /\ UNCHANGED selected_template

\* an event that does nothing but print a message (or nothing at all)
DoNothing(kind, num, said) ==
  /\ last' = Event(kind, num, selected_template, now, lastSelect)
  /\ ops' = <<>>
  /\ stdout' = said
  /\ UNCHANGED <<TEST_MODE, system, pc, selected_template, log, files, now,
                 gpio, nprints, lastSelect, nsubmits>>

-----------------------------------------------------------------------------
(* Console mode: one line of input (lines 227-259) *)

Keys == {"1", "2", "3", "4", "5", "6", "q", "", "x"}

ConsoleQuit(key) ==
  /\ key = "q"
  /\ pc' = "quit"
  /\ last' = Event("quit", 0, selected_template, now, lastSelect)
  /\ ops' = <<>>
  /\ stdout' = <<>>
  /\ UNCHANGED <<TEST_MODE, system, selected_template, log, files, now, gpio,
                 nprints, lastSelect, nsubmits>>

ConsoleSelect(key) ==
  /\ key \in {"1", "2", "3", "4"}
  /\ DoSelect(KeyNum(key))

ConsoleUnselected(key) ==
  /\ key \in {"5", "6"}
  /\ ~Selected(selected_template)
  /\ DoNothing("print", KeyNum(key), <<"Bitte zuerst Template waehlen (1-4).">>)

ConsolePrint(key) ==
  /\ key \in {"5", "6"}
  /\ Selected(selected_template)
  /\ \E env \in PrintEnvs(system, KeyNum(key)) : DoPrint(KeyNum(key), env)

\* a variant of ConsoleInvalid: an invalid line also drops the selection
ConsoleInvalidResets(key) ==
  /\ key \notin {"q", "1", "2", "3", "4", "5", "6"}
  /\ last' = Event("invalid", 0, selected_template, now, lastSelect)
  /\ ops' = <<>>
  /\ stdout' = <<"Ungueltige Eingabe. 1-6 oder q zum Beenden.">>
  /\ selected_template' = NoSelection
  /\ UNCHANGED <<TEST_MODE, system, pc, log, files, now, gpio, nprints,
                 lastSelect, nsubmits>>

ConsoleInvalid(key) ==
  /\ key \notin {"q", "1", "2", "3", "4", "5", "6"}
  /\ DoNothing("invalid", 0, <<"Ungueltige Eingabe. 1-6 oder q zum Beenden.">>)

ConsoleInput(key) ==
  /\ pc = "loop"
  /\ TEST_MODE
  /\ \/ ConsoleQuit(key)
     \/ ConsoleSelect(key)
     \/ ConsoleUnselected(key)
     \/ ConsolePrint(key)
     \/ ConsoleInvalid(key)
  /\ UNCHANGED <<scanVars, pinVars, statsVars>>

-----------------------------------------------------------------------------
(* GPIO mode: one pin read LOW, handled until it is released (lines 262-295) *)

BUTTON_PINS == [num \in 1..6 |->
  CASE num = 1 -> 5 [] num = 2 -> 6 [] num = 3 -> 13
    [] num = 4 -> 19 [] num = 5 -> 26 [] num = 6 -> 21]

\* a variant of GpioSelect: a button changes the selection only when no sector
\* is selected yet
GpioSelectSticky(num) ==
  /\ num \in {1, 2, 3, 4}
  /\ selected_template' = SelectOnce(selected_template, num)
  /\ lastSelect' = num
  /\ last' = Event("select", num, selected_template, now, lastSelect)
  /\ ops' = <<>>
  /\ stdout' = <<"Template ausgewaehlt: ", SelectOnce(selected_template, num)[1]>>
  /\ UNCHANGED <<TEST_MODE, system, pc, log, files, now, gpio, nprints,
                 nsubmits>>

GpioSelect(num) ==
  /\ num \in {1, 2, 3, 4}
  /\ DoSelect(num)

GpioPrint(num) ==
  /\ num \in {5, 6}
  /\ Selected(selected_template)
  /\ \E env \in PrintEnvs(system, num) : DoPrint(num, env)

GpioUnselected(num) ==
  /\ num \in {5, 6}
  /\ ~Selected(selected_template)
  /\ DoNothing("print", num, <<>>)

GpioButton(num) ==
  /\ pc = "loop"
  /\ ~TEST_MODE
  /\ \/ GpioSelect(num)
     \/ GpioPrint(num)
     \/ GpioUnselected(num)
  /\ UNCHANGED <<scanVars, pinVars, statsVars>>

-----------------------------------------------------------------------------
(* The environment *)

\* KeyboardInterrupt while the loop waits for an event (lines 299-303)
Interrupt ==
  /\ pc = "loop"
  /\ pc' = "interrupted"
  /\ gpio' = Cleanup(gpio, TEST_MODE)
  /\ last' = Event("interrupt", 0, selected_template, now, lastSelect)
  /\ ops' = <<>>
  /\ stdout' = <<"Beendet.">>
  /\ UNCHANGED <<TEST_MODE, system, selected_template, log, files, now,
                 nprints, lastSelect, nsubmits>>
  /\ UNCHANGED <<scanVars, pinVars, statsVars>>

\* a second passes.  Only timestamp() and the logger read the clock, so the
\* seconds in which nothing was logged are not counted
Tick ==
  /\ pc = "loop"
  /\ \E i \in DOMAIN log : log[i].time = now
  /\ now' = now + 1
  /\ UNCHANGED <<TEST_MODE, system, pc, selected_template, log, files, gpio,
                 nprints, lastSelect, last, ops, stdout, nsubmits>>
  /\ UNCHANGED <<scanVars, pinVars, statsVars>>

Next ==
  \/ \E key \in Keys : ConsoleInput(key)
  \/ \E num \in DOMAIN BUTTON_PINS : GpioButton(num)
  \/ Interrupt
  \/ Tick

Spec == Init /\ [][Next]_vars

TypeOK ==
  /\ pc \in {"loop", "quit", "interrupted", "crashed"}
  /\ nprints \in 0..MaxPrints
  /\ now \in 0..MaxPrints

-----------------------------------------------------------------------------
(* Reading the trace of the last event *)

\* the calls of one kind the last event made
Calls(name) == SelectSeq(ops, LAMBDA o : o.op = name)

\* the lines the last event wrote to the log
Appended == LogLines(last.time, ops)

\* a line that carries the ticket fields Sektor=<name> | QR=<flag>
IsTicketLine(l) ==
  /\ Len(l.text) = 5
  /\ l.text[2] = "Sektor="
  /\ l.text[4] = " | QR="
  /\ l.text[5] \in {"True", "False"}

TicketLines == SelectSeq(Appended, IsTicketLine)

\* the last event was a print event (5 or 6) that found a sector selected
PrintWithSector == last.kind = "print" /\ Selected(last.sel)

\* the last event reached the print submitter
Submitted == Calls("print") # <<>>

\* what send_to_printer returned to the last event
SubmitRet == Calls("print")[1].args[2]

\* the ticket file of the last event
LastFile == TicketFile(last.time)

\* the lines the last event wrote are the end of the log
AppendedIsLogTail ==
  /\ Len(Appended) <= Len(log)
  /\ SubSeq(log, Len(log) - Len(Appended) + 1, Len(log)) = Appended

-----------------------------------------------------------------------------
(* C1 *)

\* C1: in both modes a print event (5 or 6) that arrives before any select
\* event makes no call at all (no scan, no image, no print, no log write):
\* nothing has been logged, no file exists and no print attempt is counted.
C1_NoPrintBeforeSelection ==
  (last.kind = "print" /\ last.fresh) =>
    /\ ops = <<>>
    /\ log = <<>>
    /\ files = {}
    /\ nprints = 0

C1_Witness ==
  /\ last.kind = "print"
  /\ last.fresh
  /\ last.num = 6
  /\ ~TEST_MODE

-----------------------------------------------------------------------------
(* C2 *)

\* the last event was a code-scan print action whose scan returned no code
ScanFoundNothing ==
  /\ PrintWithSector
  /\ last.num = 6
  /\ Calls("scan") # <<>>
  /\ Calls("scan")[1].args[1] = NoneVal

\* C2: a code-scan print action (event 6, sector selected) whose scan returns
\* no decoded code aborts the print: no image is composed and no ticket file is
\* created, the print submitter is not invoked, no ticket line is logged.
C2_NoCodeAbortsPrint ==
  ScanFoundNothing =>
    /\ Calls("compose") = <<>>
    /\ Calls("print") = <<>>
    /\ TicketLines = <<>>
    /\ LastFile \notin files

-----------------------------------------------------------------------------
(* C3 *)

\* the last event's submission succeeded
SubmitOk == PrintWithSector /\ Submitted /\ SubmitRet = "True"

\* the outcome of the last event's delete_file call
DeleteResult == Calls("delete")[1].args[1]

\* the INFO line of a printed ticket, for the sector the event found selected
IsPrintedLine(l) ==
  /\ IsTicketLine(l)
  /\ l.level = "INFO"
  /\ l.text[1] = "Ticket gedruckt: "
  /\ l.text[3] = last.sel[1]
  /\ l.time = last.time

\* C3 as stated: a print action whose submission succeeds appends exactly one
\* log line, the ticket line, and afterwards its ticket file no longer exists.
C3_Original ==
  SubmitOk =>
    /\ Len(Appended) = 1
    /\ IsTicketLine(Appended[1])
    /\ LastFile \notin files

\* C3 as amended: a print action whose submission succeeds appends exactly one
\* ticket line, the INFO line "Ticket gedruckt: Sektor=<name> | QR=<flag>", and
\* calls delete_file once for its ticket file; if os.remove succeeds the file
\* no longer exists and the ticket line is the last line written, if os.remove
\* raises the file remains and one ERROR line "Fehler beim Loeschen" follows.
C3_SuccessLogsAndDeletes ==
  SubmitOk =>
    /\ AppendedIsLogTail
    /\ Len(TicketLines) = 1
    /\ IsPrintedLine(TicketLines[1])
    /\ Len(Calls("delete")) = 1
    /\ Calls("delete")[1].file = LastFile
    /\ DeleteResult \in {"removed", "failed"}
    /\ DeleteResult = "removed" =>
         /\ LastFile \notin files
         /\ Appended[Len(Appended)] = TicketLines[1]
    /\ DeleteResult = "failed" =>
         /\ LastFile \in files
         /\ Appended[Len(Appended) - 1] = TicketLines[1]
         /\ Appended[Len(Appended)].level = "ERROR"
         /\ Appended[Len(Appended)].text[1] = "Fehler beim Loeschen: "

C3_Witness ==
  /\ SubmitOk
  /\ DeleteResult = "removed"
  /\ LastFile \notin files
  /\ Len(log) = 1

-----------------------------------------------------------------------------
(* C4 *)

\* the last event's submission did not report success
SubmitFailed == PrintWithSector /\ Submitted /\ SubmitRet # "True"

\* C4: a print action whose submission fails (send_to_printer does not report
\* success) leaves the ticket file in place, never calls delete_file, and
\* writes an ERROR ticket line for the sector.
C4_FailureKeepsFile ==
  SubmitFailed =>
    /\ LastFile \in files
    /\ Calls("delete") = <<>>
    /\ AppendedIsLogTail
    /\ \E i \in DOMAIN Appended :
         /\ Appended[i].level = "ERROR"
         /\ IsTicketLine(Appended[i])
         /\ Appended[i].text[3] = last.sel[1]

C4_Witness ==
  /\ SubmitFailed
  /\ SubmitRet = "False"
  /\ LastFile \in files
  /\ Calls("delete") = <<>>

-----------------------------------------------------------------------------
(* C5 *)

\* C5 as stated: a print attempt that reached the submitter appends exactly
\* one log line, whether the submission succeeded or failed.
C5_Original ==
  (PrintWithSector /\ Submitted) => Len(Appended) = 1

\* C5 as amended: a print attempt that reached the submitter appends exactly
\* one ticket line (Sektor=<name> | QR=<flag>), INFO when the submission
\* succeeded and ERROR when it did not; every other line the attempt appends
\* (camera, print command, deletion) is an ERROR line without the ticket fields.
C5_OneTicketLinePerAttempt ==
  (PrintWithSector /\ Submitted) =>
    /\ AppendedIsLogTail
    /\ Len(TicketLines) = 1
    /\ TicketLines[1].level = (IF SubmitRet = "True" THEN "INFO" ELSE "ERROR")
    /\ TicketLines[1].text[3] = last.sel[1]
    /\ \A i \in DOMAIN Appended :
         ~IsTicketLine(Appended[i]) => Appended[i].level = "ERROR"

C5_Witness ==
  /\ PrintWithSector
  /\ Submitted
  /\ SubmitRet = "False"
  /\ Len(Appended) = 2
  /\ Len(TicketLines) = 1

-----------------------------------------------------------------------------
(* C6 *)

\* the code the last event's compose call pasted on the ticket, NoneVal if none
PastedCode == Calls("compose")[1].args[3]

\* C6: the code-used flag in a print attempt's ticket line is True exactly
\* when a code was decoded and placed on that ticket, and False otherwise.
C6_FlagIsCodeUsed ==
  (PrintWithSector /\ Submitted) =>
    /\ Len(TicketLines) = 1
    /\ TicketLines[1].text[5] = "True" <=> PastedCode # NoneVal

-----------------------------------------------------------------------------
(* C7 *)

\* the configured (sector name, template path) pair of select event k
Configured(k) == templates[k]

\* C7: after a select event k in 1..4, in both modes, the stored selection is
\* the configured pair of k whatever was selected before; a print action
\* composes from the template, and logs the sector name, of the select event
\* handled most recently.
C7_SelectionIsConfiguredPair ==
  /\ last.kind = "select" =>
       /\ last.num \in 1..4
       /\ lastSelect = last.num
       /\ selected_template = Configured(last.num)
  /\ (last.kind = "print" /\ ops # <<>>) =>
       /\ lastSelect \in 1..4
       /\ Len(Calls("compose")) = 1
       /\ Calls("compose")[1].args[1] = Configured(lastSelect)[2][1]
       /\ Calls("compose")[1].args[2] = Configured(lastSelect)[2][2]
       /\ \A i \in DOMAIN TicketLines :
            TicketLines[i].text[3] = Configured(lastSelect)[1]

C7_Witness ==
  /\ last.kind = "select"
  /\ last.num = 3
  /\ Selected(last.sel)
  /\ last.sel # Configured(3)
  /\ selected_template = Configured(3)

-----------------------------------------------------------------------------
(* C8 *)

\* C8: the selection is absent until the first select event and afterwards is
\* the pair of the select event handled most recently: print events (done,
\* failed or rejected), invalid inputs, quit and interrupt neither change nor
\* clear it.
C8_OnlySelectChangesSelection ==
  /\ lastSelect = 0 => selected_template = NoSelection
  /\ lastSelect # 0 => selected_template = Configured(lastSelect)
  /\ last.kind # "select" => selected_template = last.sel

C8_Witness ==
  /\ last.kind = "print"
  /\ Submitted
  /\ SubmitRet = "True"
  /\ lastSelect = 2
  /\ selected_template = Configured(2)

-----------------------------------------------------------------------------
(* C9 *)

\* C9: no error is fatal to the dispatch loop: after handling a select event,
\* a print event or an invalid input, whatever failed on the way, the loop is
\* still running; it ends only on quit or on an interrupt.
C9_NoErrorIsFatal ==
  /\ last.kind \in {"select", "print", "invalid"} => pc = "loop"
  /\ pc # "loop" => last.kind \in {"quit", "interrupt"}

-----------------------------------------------------------------------------
(* C10 *)

\* the outcome of the print command in the last event
SubmitOutcome == Calls("print")[1].args[1]

\* the call that follows the print call in the trace
AfterSubmit ==
  LET i == CHOOSE j \in DOMAIN ops : ops[j].op = "print" IN ops[i + 1]

\* C10: on every host platform send_to_printer returns a boolean: True when
\* the print mechanism accepted the job, and False, with an ERROR line logged
\* by send_to_printer itself, when the command exits non-zero or raises.
C10_SubmitterReturnsBoolean ==
  Submitted =>
    /\ SubmitRet \in {"True", "False"}
    /\ SubmitRet = "True" <=> SubmitOutcome = "ok"
    /\ SubmitRet = "False" =>
         /\ AfterSubmit.op = "log"
         /\ AfterSubmit.args[1] = "ERROR"
         /\ Len(AfterSubmit.args) = 3

-----------------------------------------------------------------------------
(* One scan_qr_code call, followed frame by frame (lines 82-108) *)

dispatchVars == <<TEST_MODE, system, pc, selected_template, log, files, now,
                  gpio, nprints, lastSelect, last, ops, stdout, nsubmits>>

\* what cap.read(), decode() and cv2.waitKey() can deliver in one pass; a
\* failed read delivers no frame
ScanFrames ==
  { [ret |-> FALSE, codes |-> <<>>, key |-> ""] }
    \cup [ret : {TRUE},
          codes : {<<>>, <<"QR-A">>, <<"QR-B">>, <<"QR-A", "QR-B">>,
                   <<"QR-B", "QR-A">>},
          key : {"", "q", "x"}]

\* the camera as scan_qr_code sees it
ScanCam == [opened |-> camera.state = "open", frames |-> camera.frames]

\* what scan_qr_code has done after the frames read so far
ScanResult == scan_qr_code(ScanCam)

\* cv2.VideoCapture(0) and cap.isOpened() (lines 84-88)
ScanOpen(ok) ==
  /\ camera.state = "idle"
  /\ camera' = [state |-> IF ok THEN "open" ELSE "failed", frames |-> <<>>]
  /\ UNCHANGED <<dispatchVars, pinVars, statsVars>>

\* one pass of the while True loop (lines 92-105)
ScanRead(f) ==
  /\ camera.state = "open"
  /\ ~ScanResult.returned
  /\ Len(camera.frames) < MaxScanFrames
  /\ camera' = [camera EXCEPT !.frames = Append(@, f)]
  /\ UNCHANGED <<dispatchVars, pinVars, statsVars>>

ScanInit ==
  /\ Init
  /\ TEST_MODE
  /\ system = "Linux"

ScanNext ==
  \/ \E ok \in BOOLEAN : ScanOpen(ok)
  \/ \E f \in ScanFrames : ScanRead(f)

ScanSpec == ScanInit /\ [][ScanNext]_vars

\* the frame read last
LastFrame == camera.frames[Len(camera.frames)]

\* the call has returned after opening the camera
ScanReturnedOpen == camera.state = "open" /\ ScanResult.returned

-----------------------------------------------------------------------------
(* C11 *)

\* C11: whenever scan_qr_code returns after having opened the camera (code
\* decoded, cancel, failed read) the camera has been released; when the frame
\* read last decodes to one or more codes the call returns the first of them;
\* when the camera cannot be opened the call returns None.
C11_ScanReleasesCamera ==
  /\ ScanReturnedOpen =>
       /\ ScanResult.released
       /\ (LastFrame.ret /\ LastFrame.codes # <<>>) =>
            ScanResult.ret = LastFrame.codes[1]
       /\ (~LastFrame.ret \/ LastFrame.codes = <<>>) =>
            ScanResult.ret = NoneVal
  /\ camera.state = "failed" =>
       /\ ScanResult.returned
       /\ ScanResult.ret = NoneVal

C11_Witness ==
  /\ ScanReturnedOpen
  /\ Len(camera.frames) = 2
  /\ LastFrame.codes = <<"QR-B", "QR-A">>
  /\ ScanResult.ret = "QR-B"
  /\ ScanResult.released

-----------------------------------------------------------------------------
(* C12 *)

\* C12 as stated: once the camera is open, scan_qr_code returns only when a
\* code has been decoded or the operator has cancelled (q in the preview).
C12_Original ==
  ScanReturnedOpen =>
    \/ LastFrame.ret /\ LastFrame.codes # <<>>
    \/ LastFrame.ret /\ LastFrame.key = "q"

\* C12 as amended: once the camera is open, scan_qr_code returns only when a
\* code has been decoded, the operator has cancelled, or cap.read() has failed
\* to deliver a frame; as long as every frame is read, holds no code and no
\* cancel comes, the call has not returned, however many frames that is.
C12_ScanBlocksUntilEnd ==
  /\ ScanReturnedOpen =>
       \/ LastFrame.ret /\ LastFrame.codes # <<>>
       \/ LastFrame.ret /\ LastFrame.key = "q"
       \/ ~LastFrame.ret
  /\ (camera.state = "open"
        /\ \A i \in DOMAIN camera.frames : KeepsScanning(camera.frames[i])) =>
       ~ScanResult.returned

C12_Witness ==
  /\ camera.state = "open"
  /\ Len(camera.frames) = MaxScanFrames
  /\ \A i \in DOMAIN camera.frames : KeepsScanning(camera.frames[i])
  /\ ~ScanResult.returned

-----------------------------------------------------------------------------
(* C14 *)

\* C14: a print event (5 or 6) that finds no sector selected writes a warning
\* to the terminal, in console mode and in GPIO mode alike.
C14_WarningInBothModes ==
  (last.kind = "print" /\ ~Selected(last.sel)) => stdout # <<>>

-----------------------------------------------------------------------------
(* C15 *)

\* C15: the quit command ends the dispatch loop and so does an interrupt;
\* however the loop has ended (quit, interrupt, an exception nobody caught),
\* in GPIO mode the pins have been released by GPIO.cleanup(), and they are
\* not released while the loop is still running.
C15_LoopEndReleasesPins ==
  /\ last.kind = "quit" => pc = "quit"
  /\ last.kind = "interrupt" => pc = "interrupted"
  /\ (pc # "loop" /\ ~TEST_MODE) => gpio = "cleaned"
  /\ (pc = "loop" /\ ~TEST_MODE) => gpio = "setup"

C15_Witness ==
  /\ ~TEST_MODE
  /\ pc = "crashed"
  /\ gpio = "cleaned"

-----------------------------------------------------------------------------
(* C17 *)

\* the places in the trace of the last event where a call of this kind stands
Pos(name) == {i \in DOMAIN ops : ops[i].op = name}

\* the place of the info line "Ticket gedruckt: ..."
InfoPos == {i \in Pos("log") : ops[i].args[1] = "INFO"}

\* every call of the first kind stands before every call of the second
Before(A, B) == \A i \in A, j \in B : i < j

\* C17: a print event that finds a sector selected scans (event 6 only, once),
\* then composes the image, then submits it, then, only when the submission
\* succeeded, writes the info line and after it deletes the ticket file; each
\* step happens at most once, the file is not deleted before it is submitted,
\* and a failed submission is followed by neither info line nor deletion.
C17_StepsInOrder ==
  PrintWithSector =>
    /\ \A n \in {"scan", "compose", "print", "delete"} : Cardinality(Pos(n)) <= 1
    /\ Cardinality(InfoPos) <= 1
    /\ (Pos("scan") # {}) = (last.num = 6)
    /\ Pos("compose") # {}
    /\ Before(Pos("scan"), Pos("compose"))
    /\ Before(Pos("compose"), Pos("print"))
    /\ Before(Pos("print"), InfoPos)
    /\ Before(Pos("print"), Pos("delete"))
    /\ Before(InfoPos, Pos("delete"))
    /\ (InfoPos # {}) = (Submitted /\ SubmitRet = "True")
    /\ (Pos("delete") # {}) = (Submitted /\ SubmitRet = "True")
    /\ \A i \in Pos("delete") : ops[i].file = LastFile
    /\ \A i \in Pos("print") : ops[i].file = LastFile

C17_Witness ==
  /\ PrintWithSector
  /\ last.num = 6
  /\ Pos("scan") = {1}
  /\ Pos("compose") # {}
  /\ Pos("print") # {}
  /\ InfoPos # {}
  /\ Pos("delete") = {Len(ops)}

-----------------------------------------------------------------------------
(* C18 *)

\* C18: in console mode an input line other than "1".."6" and "q" (the empty
\* line too) writes the warning and does nothing else: the selection is
\* kept, no scan, image or print call is made, nothing is logged, no file
\* appears and the loop goes on.
C18_InvalidInputOnlyWarns ==
  [][last'.kind = "invalid" =>
       /\ TEST_MODE
       /\ stdout' = <<"Ungueltige Eingabe. 1-6 oder q zum Beenden.">>
       /\ ops' = <<>>
       /\ selected_template' = selected_template
       /\ log' = log
       /\ files' = files
       /\ nprints' = nprints
       /\ nsubmits' = nsubmits
       /\ gpio' = gpio
       /\ pc' = "loop"]_vars

C18_Witness ==
  /\ last.kind = "invalid"
  /\ Selected(selected_template)
  /\ stdout = <<"Ungueltige Eingabe. 1-6 oder q zum Beenden.">>
  /\ log # <<>>
  /\ pc = "loop"

-----------------------------------------------------------------------------
(* stats.py: the tally over logs/statistics.log *)

\* A line is the sequence of its pieces of text; "Sektor=" and " | QR=" are
\* pieces of their own wherever the line contains them.

NoMatch == [ok |-> FALSE, sector |-> <<>>, qr |-> ""]

\* the least element of a non-empty set of positions
Least(S) == CHOOSE i \in S : \A j \in S : i <= j

\* a variant of Match: only the lines of successful prints are counted
MatchPrintedOnly(line) ==
  LET P == {i \in DOMAIN line :
              /\ i + 4 <= Len(line)
              /\ line[i] = "Ticket gedruckt: "
              /\ line[i + 1] = "Sektor="
              /\ line[i + 3] = " | QR="
              /\ line[i + 4] \in {"True", "False"}}
  IN  IF P = {} THEN NoMatch
      ELSE [ok |-> TRUE, sector |-> <<line[Least(P) + 2]>>,
            qr |-> line[Least(P) + 4]]

\* re.search(r"Sektor=(.*?) \| QR=(True|False)", line): the leftmost
\* "Sektor=", then the shortest text up to a " | QR=" that True or False
\* follows; groups() are that text and the flag
Match(line) ==
  LET S == {i \in DOMAIN line : line[i] = "Sektor="} IN
  IF S = {} THEN NoMatch
  ELSE LET Q == {j \in DOMAIN line :
                   /\ j > Least(S)
                   /\ j < Len(line)
                   /\ line[j] = " | QR="
                   /\ line[j + 1] \in {"True", "False"}}
       IN  IF Q = {} THEN NoMatch
           ELSE [ok |-> TRUE,
                 sector |-> SubSeq(line, Least(S) + 1, Least(Q) - 1),
                 qr |-> line[Least(Q) + 1]]

\* Counter()
EmptyCounter == [k \in {} |-> 0]

\* a variant of Inc: a key is counted once however often it occurs
IncOnce(counter, k) == [x \in DOMAIN counter \cup {k} |-> 1]

\* counter[k] += 1
Inc(counter, k) ==
  [x \in DOMAIN counter \cup {k} |->
     IF x = k THEN (IF k \in DOMAIN counter THEN counter[k] + 1 ELSE 1)
     ELSE counter[x]]

\* for line in lines: ... (lines 8-12)
RECURSIVE Count(_, _)
Count(lines, counter) ==
  IF lines = <<>> THEN counter
  ELSE LET m == Match(Head(lines)) IN
       Count(Tail(lines),
             IF m.ok THEN Inc(counter, <<m.sector, m.qr>>) ELSE counter)

\* sum(v for k, v in counter.items() if k in K)
RECURSIVE SumOver(_, _)
SumOver(counter, K) ==
  IF K = {} THEN 0
  ELSE LET k == CHOOSE x \in K : TRUE IN counter[k] + SumOver(counter, K \ {k})

\* what stats.py prints: per sector the two numbers of line 19, and the total
\* of line 20 (the order in which the sectors are printed is not modelled)
Tally(lines) ==
  LET counter == Count(lines, EmptyCounter)
      keys == DOMAIN counter
  IN  [ran |-> TRUE,
       sectors |-> [s \in {k[1] : k \in keys} |->
                      [tickets |-> SumOver(counter, {k \in keys : k[1] = s}),
                       qr |-> SumOver(counter,
                                {k \in keys : k[1] = s /\ k[2] = "True"})]],
       total |-> SumOver(counter, keys)]

\* lines a log file can hold: ticket lines of both levels, lines without the
\* ticket fields, a flag that is neither True nor False, a sector text that
\* itself contains " | "
TallyLines ==
  { <<"<asctime>", "INFO", "Ticket gedruckt: ", "Sektor=", "Waldseite", " | QR=", "True">>,
    <<"<asctime>", "INFO", "Ticket gedruckt: ", "Sektor=", "Waldseite", " | QR=", "False">>,
    <<"<asctime>", "ERROR", "Druckfehler: ", "Sektor=", "Gegengerade", " | QR=", "True">>,
    <<"<asctime>", "ERROR", "Druckfehler: ", "<exception>">>,
    <<"<asctime>", "INFO", "Sektor=", "Waldseite", " | QR=", "Maybe">>,
    <<"Sektor=", "Wald", " | ", "seite", " | QR=", "False", " | QR=", "True">> }

\* one more line is in the log file when stats.py opens it
StatsWrite(l) ==
  /\ ~statsOut.ran
  /\ Len(statsLines) < MaxLines
  /\ statsLines' = Append(statsLines, l)
  /\ UNCHANGED <<statsOut, dispatchVars, scanVars, pinVars>>

\* python stats.py
StatsRun ==
  /\ ~statsOut.ran
  /\ statsOut' = Tally(statsLines)
  /\ UNCHANGED <<statsLines, dispatchVars, scanVars, pinVars>>

TallyInit ==
  /\ Init
  /\ TEST_MODE
  /\ system = "Linux"

TallyNext ==
  \/ \E l \in TallyLines : StatsWrite(l)
  \/ StatsRun

TallySpec == TallyInit /\ [][TallyNext]_vars

-----------------------------------------------------------------------------
(* C16 *)

\* the lines of the file that carry this sector and this flag
LinesWith(s, q) ==
  {i \in DOMAIN statsLines :
     /\ Match(statsLines[i]).ok
     /\ Match(statsLines[i]).sector = s
     /\ Match(statsLines[i]).qr = q}

\* the lines of the file that match the pattern
MatchingLines == {i \in DOMAIN statsLines : Match(statsLines[i]).ok}

\* the sectors named by matching lines
SectorsSeen == {Match(statsLines[i]).sector : i \in MatchingLines}

\* C16: for every list of log lines the tally reports exactly the sectors
\* named by matching lines; for each of them the number of matching lines of
\* that sector and, of those, the number with QR=True; the grand total is the
\* number of matching lines, which is the sum of the per-sector counts; lines
\* that do not match count nowhere.  Two Waldseite/True lines and one
\* Waldseite/False line give Waldseite 3 with 2 QR and a total of 3.
C16_TallyCountsMatchingLines ==
  statsOut.ran =>
    /\ DOMAIN statsOut.sectors = SectorsSeen
    /\ \A s \in SectorsSeen :
         /\ statsOut.sectors[s].tickets =
              Cardinality(LinesWith(s, "True")) + Cardinality(LinesWith(s, "False"))
         /\ statsOut.sectors[s].qr = Cardinality(LinesWith(s, "True"))
    /\ statsOut.total = Cardinality(MatchingLines)
    /\ statsOut.total =
         SumOver([s \in SectorsSeen |-> statsOut.sectors[s].tickets], SectorsSeen)
    /\ (\E i, j, k \in DOMAIN statsLines :
          /\ Len(statsLines) = 3
          /\ i # j
          /\ LinesWith(<<"Waldseite">>, "True") = {i, j}
          /\ LinesWith(<<"Waldseite">>, "False") = {k}) =>
         /\ statsOut.sectors[<<"Waldseite">>] = [tickets |-> 3, qr |-> 2]
         /\ statsOut.total = 3

C16_Witness ==
  /\ statsOut.ran
  /\ Len(statsLines) = 3
  /\ Cardinality(LinesWith(<<"Waldseite">>, "True")) = 1
  /\ Cardinality(LinesWith(<<"Waldseite">>, "False")) = 1
  /\ \E i \in DOMAIN statsLines : ~Match(statsLines[i]).ok
  /\ statsOut.sectors[<<"Waldseite">>] = [tickets |-> 2, qr |-> 1]
  /\ statsOut.total = 2

-----------------------------------------------------------------------------
(* C20 *)

\* the log file as stats.py reads it: one line per record of the log
LogFile == [i \in DOMAIN log |-> <<"<asctime>", log[i].level>> \o log[i].text]

\* the ticket lines of the log that name this sector with one of these flags
TicketLinesOf(s, flags) ==
  {i \in DOMAIN log :
     IsTicketLine(log[i]) /\ <<log[i].text[3]>> = s /\ log[i].text[5] \in flags}

\* C20: the line the dispatcher logs for a print attempt that reached the
\* submitter matches the tally's pattern, whether the submission succeeded
\* (info line) or failed (error line), and no other line of the log does; so
\* the tally's grand total over the dispatcher's log is the number of print
\* attempts that reached the submitter, failed ones included; the per-sector
\* counts are the numbers of ticket lines of the sector (of those with
\* QR=True), add up to the total and name configured sectors only.
C20_TallyCountsAttempts ==
  LET out == Tally(LogFile) IN
  /\ \A i \in DOMAIN log : Match(LogFile[i]).ok = IsTicketLine(log[i])
  /\ out.total = nsubmits
  /\ SumOver([s \in DOMAIN out.sectors |-> out.sectors[s].tickets],
             DOMAIN out.sectors) = nsubmits
  /\ \A s \in DOMAIN out.sectors : \E k \in DOMAIN templates : s = <<templates[k][1]>>
  /\ \A s \in DOMAIN out.sectors :
       /\ out.sectors[s].tickets = Cardinality(TicketLinesOf(s, {"True", "False"}))
       /\ out.sectors[s].qr = Cardinality(TicketLinesOf(s, {"True"}))
  /\ (PrintWithSector /\ Submitted) => <<last.sel[1]>> \in DOMAIN out.sectors

C20_Witness ==
  /\ PrintWithSector
  /\ Submitted
  /\ SubmitRet = "False"
  /\ nsubmits = 1
  /\ Tally(LogFile).total = 1

-----------------------------------------------------------------------------
(* GPIO mode with the pins as the environment drives them (lines 262-297) *)

\* pins holds the numbers of the buttons whose pin reads LOW; handled holds
\* those whose present hold has triggered an event; repeated records that a
\* hold triggered a second one

\* a button goes down
GpioPress(num) ==
  /\ pc = "loop"
  /\ num \notin pins
  /\ Cardinality(pins) < MaxHeld
  /\ pins' = pins \cup {num}
  /\ UNCHANGED <<waitPin, handled, repeated, dispatchVars, scanVars, statsVars>>

\* a button comes up: its hold is over
GpioRelease(num) ==
  /\ num \in pins
  /\ pins' = pins \ {num}
  /\ handled' = handled \ {num}
  /\ UNCHANGED <<waitPin, repeated, dispatchVars, scanVars, statsVars>>

\* if GPIO.input(pin) == GPIO.LOW: the event of that button is handled and
\* the loop of lines 294-295 is entered, unless an exception left main
GpioPoll(num) ==
  /\ pc = "loop"
  /\ ~TEST_MODE
  /\ waitPin = 0
  /\ num \in pins
  /\ \/ GpioSelect(num)
     \/ GpioPrint(num)
     \/ GpioUnselected(num)
  /\ waitPin' = IF pc' = "loop" THEN num ELSE 0
  /\ handled' = handled \cup {num}
  /\ repeated' = (repeated \/ num \in handled)
  /\ UNCHANGED <<pins, scanVars, statsVars>>

\* a variant of GpioWaitRelease: the dispatcher does not wait for the release
GpioNoWait(num) ==
  /\ waitPin = num
  /\ waitPin' = 0
  /\ UNCHANGED <<pins, handled, repeated, dispatchVars, scanVars, statsVars>>

\* while GPIO.input(pin) == GPIO.LOW: time.sleep(0.1) reads the pin HIGH
GpioWaitRelease(num) ==
  /\ waitPin = num
  /\ num \notin pins
  /\ waitPin' = 0
  /\ UNCHANGED <<pins, handled, repeated, dispatchVars, scanVars, statsVars>>

GpioInit ==
  /\ Init
  /\ ~TEST_MODE
  /\ system = "Linux"

GpioNext ==
  \/ \E num \in DOMAIN BUTTON_PINS : GpioPress(num)
  \/ \E num \in DOMAIN BUTTON_PINS : GpioRelease(num)
  \/ \E num \in DOMAIN BUTTON_PINS : GpioPoll(num)
  \/ \E num \in DOMAIN BUTTON_PINS : GpioWaitRelease(num)

GpioSpec == GpioInit /\ [][GpioNext]_vars

-----------------------------------------------------------------------------
(* C13 *)

\* C13: in GPIO mode no hold of a button triggers its action twice: a hold
\* the dispatcher has read LOW has triggered exactly one event (select or
\* print), and while that button stays down the dispatcher is blocked in the
\* wait for its release, so the event handled last is still that one.
C13_OneEventPerHold ==
  /\ ~repeated
  /\ handled \subseteq pins
  /\ waitPin # 0 =>
       /\ pc = "loop"
       /\ last.kind \in {"select", "print"}
       /\ last.num = waitPin

C13_Witness ==
  /\ waitPin = 5
  /\ pins = {5}
  /\ handled = {5}
  /\ last.kind = "print"
  /\ last.num = 5
  /\ nprints = 1
  /\ Submitted

-----------------------------------------------------------------------------
(* C19 *)

\* the key that stands for a button: int(key) = num
NumKey(num) == CHOOSE key \in {"1", "2", "3", "4", "5", "6"} : KeyNum(key) = num

\* the step handles the logical event num
HandlesEvent(num) ==
  /\ pc = "loop"
  /\ now' = now
  /\ last'.kind \in {"select", "print"}
  /\ last'.num = num

\* the dispatch loop of either mode, event after event
ModesNext ==
  \/ \E key \in Keys : ConsoleInput(key)
  \/ \E num \in DOMAIN BUTTON_PINS : GpioButton(num)

ModesSpec == Init /\ [][ModesNext]_vars

\* a print event without a selection, whatever it writes to the terminal
IgnoresPrint(num) ==
  /\ num \in {5, 6}
  /\ ~Selected(selected_template)
  /\ DoNothing("print", num, stdout')

\* the GPIO branch and the console branch, what they write to the terminal on
\* a print event without a selection left aside
GpioDoes(num) == GpioSelect(num) \/ GpioPrint(num) \/ IgnoresPrint(num)

ConsoleDoes(key) ==
  \/ ConsoleSelect(key)
  \/ ConsolePrint(key)
  \/ key \in {"5", "6"} /\ IgnoresPrint(KeyNum(key))

====
